---- MODULE Spec2Model ----
(***************************************************************************)
(* Model of ip-intel-agent (src/src/index.ts): the five paid entrypoints   *)
(* lookup, full, batch, threat and distance, the fetchJSON helper and the  *)
(* isValidIP validator.                                                    *)
(*                                                                         *)
(* One request is modelled from its invocation to the settling of its      *)
(* handler promise.  Provider fetches are slots that settle one at a time  *)
(* in any order; an awaiting handler resumes in a step of its own.         *)
(*                                                                         *)
(* JavaScript strings are sequences of one-character strings, so that      *)
(* split, parseFloat, template literals and the validator's regular        *)
(* expressions are computed and not assumed.                               *)
(*                                                                         *)
(* Not represented: the wall-clock stamp fetchedAt, the static texts       *)
(* (source, sources) and the floating-point haversine value of distance.   *)
(***************************************************************************)
EXTENDS Integers, Sequences, FiniteSets, TLC

\* Cap on the length of a batch input (the schema allows 1..10, index.ts:185).
MaxIPs == 3

-----------------------------------------------------------------------------
(* JavaScript values.  A property that is missing reads as undefined, so a  *)
(* JSON object is a record that holds Undef for every property it lacks.    *)

Undef == [t |-> "undefined", b |-> FALSE, n |-> 0, s |-> <<>>]
Null == [t |-> "null", b |-> FALSE, n |-> 0, s |-> <<>>]
NaN == [t |-> "nan", b |-> FALSE, n |-> 0, s |-> <<>>]
Bool(x) == [t |-> "boolean", b |-> x, n |-> 0, s |-> <<>>]
Num(x) == [t |-> "number", b |-> FALSE, n |-> x, s |-> <<>>]
Str(x) == [t |-> "string", b |-> FALSE, n |-> 0, s |-> x]
\* An array of strings (only invalidIPs is one).
Arr(x) == [t |-> "array", b |-> FALSE, n |-> 0, s |-> x]

\* ToBoolean: undefined, null, false, 0, NaN and "" are falsy.
Truthy(v) ==
    CASE v.t = "boolean" -> v.b
      [] v.t = "number" -> v.n # 0
      [] v.t = "string" -> v.s # <<>>
      [] v.t = "array" -> TRUE
      [] OTHER -> FALSE

\* a || b
Or(a, b) == IF Truthy(a) THEN a ELSE b

\* a ?? b
Coalesce(a, b) == IF a.t \in {"undefined", "null"} THEN b ELSE a

Digits == <<"0", "1", "2", "3", "4", "5", "6", "7", "8", "9">>
Digit == {Digits[i] : i \in 1..10}
DigitVal(c) == (CHOOSE i \in 1..10 : Digits[i] = c) - 1

RECURSIVE NatToStr(_)
NatToStr(n) ==
    IF n < 10 THEN <<Digits[n + 1]>>
    ELSE NatToStr(n \div 10) \o <<Digits[(n % 10) + 1]>>

\* String(v), as a template literal applies it.
ToStr(v) ==
    CASE v.t = "undefined" -> <<"u", "n", "d", "e", "f", "i", "n", "e", "d">>
      [] v.t = "null" -> <<"n", "u", "l", "l">>
      [] v.t = "nan" -> <<"N", "a", "N">>
      [] v.t = "boolean" ->
            IF v.b THEN <<"t", "r", "u", "e">> ELSE <<"f", "a", "l", "s", "e">>
      [] v.t = "number" ->
            IF v.n < 0 THEN <<"-">> \o NatToStr(-v.n) ELSE NatToStr(v.n)
      [] OTHER -> v.s

\* s.split(sep) for a one-character separator.
RECURSIVE SplitFrom(_, _, _, _)
SplitFrom(s, sep, i, cur) ==
    IF i > Len(s) THEN <<cur>>
    ELSE IF s[i] = sep THEN <<cur>> \o SplitFrom(s, sep, i + 1, <<>>)
    ELSE SplitFrom(s, sep, i + 1, Append(cur, s[i]))

Split(s, sep) == SplitFrom(s, sep, 1, <<>>)

\* The value of the leading run of digits of s from position i on.
RECURSIVE DigitRun(_, _, _)
DigitRun(s, i, acc) ==
    IF i <= Len(s) /\ s[i] \in Digit
    THEN DigitRun(s, i + 1, 10 * acc + DigitVal(s[i]))
    ELSE acc

\* parseFloat of a string: optional sign, then digits; NaN when no digit
\* leads.  Fractions and exponents are outside the modelled inputs.
ParseFloatStr(s) ==
    LET neg == Len(s) >= 1 /\ s[1] = "-"
        from == IF neg \/ (Len(s) >= 1 /\ s[1] = "+") THEN 2 ELSE 1
    IN  IF from <= Len(s) /\ s[from] \in Digit
        THEN Num(IF neg THEN -DigitRun(s, from, 0) ELSE DigitRun(s, from, 0))
        ELSE NaN

\* parts[k] of an array of strings, 0-based; undefined past its end.
At(parts, k) == IF k + 1 <= Len(parts) THEN Str(parts[k + 1]) ELSE Undef

\* parseFloat(v): the argument is converted with String first.
ParseFloat(v) == ParseFloatStr(ToStr(v))

-----------------------------------------------------------------------------
(* isValidIP                                                                *)

HexDigit == Digit \cup {"a", "b", "c", "d", "e", "f", "A", "B", "C", "D", "E", "F"}

\* 25[0-5]|2[0-4][0-9]|[01]?[0-9][0-9]?
Octet(p) ==
    \/ Len(p) = 1 /\ p[1] \in Digit
    \/ Len(p) = 2 /\ p[1] \in Digit /\ p[2] \in Digit
    \/ Len(p) = 3 /\ p[1] \in {"0", "1"} /\ p[2] \in Digit /\ p[3] \in Digit
    \/ Len(p) = 3 /\ p[1] = "2" /\ p[2] \in {"0", "1", "2", "3", "4"} /\ p[3] \in Digit
    \/ Len(p) = 3 /\ p[1] = "2" /\ p[2] = "5" /\ p[3] \in {"0", "1", "2", "3", "4", "5"}

\* [0-9a-fA-F]{1,4}
Hextet(p) == Len(p) \in 1..4 /\ \A i \in 1..Len(p) : p[i] \in HexDigit

\* ^(?:octet\.){3}octet$ : no octet holds a dot, so the match is the split.
IPv4(ip) ==
    LET parts == Split(ip, ".")
    IN  Len(parts) = 4 /\ \A i \in 1..4 : Octet(parts[i])

\* The four alternatives of the ipv6 expression, on the split at ":".
IPv6(ip) ==
    LET parts == Split(ip, ":")
        k == Len(parts)
    IN  \/ k = 8 /\ \A i \in 1..8 : Hextet(parts[i])
        \/ parts = <<<<>>, <<>>, <<>>>>
        \/ /\ k \in 3..9
           /\ parts[k] = <<>> /\ parts[k - 1] = <<>>
           /\ \A i \in 1..(k - 2) : Hextet(parts[i])
        \/ /\ k \in 3..9
           /\ parts[1] = <<>> /\ parts[2] = <<>>
           /\ \A i \in 3..k : Hextet(parts[i])

isValidIP(ip) == IPv4(ip) \/ IPv6(ip)

-----------------------------------------------------------------------------
(* String literals of the program and of the modelled provider data.       *)

InvalidIPFormat == <<"I", "n", "v", "a", "l", "i", "d", " ", "I", "P", " ", "a", "d", "d", "r", "e", "s", "s", " ", "f", "o", "r", "m", "a", "t">>
LookupFailed == <<"L", "o", "o", "k", "u", "p", " ", "f", "a", "i", "l", "e", "d">>
RequestFailed == <<"R", "e", "q", "u", "e", "s", "t", " ", "f", "a", "i", "l", "e", "d">>
BothLookupsFailed == <<"O", "n", "e", " ", "o", "r", " ", "b", "o", "t", "h", " ", "I", "P", " ", "l", "o", "o", "k", "u", "p", "s", " ", "f", "a", "i", "l", "e", "d">>
success == <<"s", "u", "c", "c", "e", "s", "s">>
fail == <<"f", "a", "i", "l">>
AS == <<"A", "S">>
ReservedRange == <<"r", "e", "s", "e", "r", "v", "e", "d", " ", "r", "a", "n", "g", "e">>

IpApiCom == "ip-api.com"
IpInfoIo == "ipinfo.io"
IpWhoIs == "ipwho.is"

-----------------------------------------------------------------------------
(* Inputs.  ProbeIPs are the addresses a single-address operation is tried  *)
(* with, BatchIPs those a batch is built from.                              *)

IP_1_2_3_4 == <<"1", ".", "2", ".", "3", ".", "4">>
IP_255_01_199_0 == <<"2", "5", "5", ".", "0", "1", ".", "1", "9", "9", ".", "0">>
IP_256_1_1_1 == <<"2", "5", "6", ".", "1", ".", "1", ".", "1">>
IP_1_2_3 == <<"1", ".", "2", ".", "3">>
IP_loopback6 == <<":", ":", "1">>
IP_1__1 == <<"1", ":", ":", "1">>
IP_full6 == <<"1", ":", "2", ":", "3", ":", "4", ":", "5", ":", "6", ":", "7", ":", "f", "F">>
IP_host == <<"h", "o", "s", "t">>

ProbeIPs ==
    {IP_1_2_3_4, IP_255_01_199_0, IP_256_1_1_1, IP_1_2_3, IP_loopback6,
     IP_1__1, IP_full6, IP_host, <<>>}

BatchIPs == {IP_1_2_3_4, IP_loopback6, IP_256_1_1_1, IP_1__1}

BatchInputs == UNION {[1..n -> BatchIPs] : n \in 1..MaxIPs}

-----------------------------------------------------------------------------
(* Provider responses.  A JSON object is a record with nullish = FALSE; a   *)
(* null or missing object is Nullish, on which only ?. may read.            *)

Nullish == [nullish |-> TRUE]

\* obj?.f for a property holding a plain value
Opt(obj, f) == IF obj.nullish THEN Undef ELSE obj[f]

\* obj?.f for a property holding an object
OptObj(obj, f) == IF obj.nullish THEN Nullish ELSE obj[f]

\* ip-api.com: the object without any property, then the bodies tried.
IpApiNone ==
    [nullish |-> FALSE,
     status |-> Undef, message |-> Undef, query |-> Undef, country |-> Undef,
     countryCode |-> Undef, regionName |-> Undef, city |-> Undef, zip |-> Undef,
     lat |-> Undef, lon |-> Undef, timezone |-> Undef, isp |-> Undef,
     org |-> Undef, as |-> Undef, asname |-> Undef, reverse |-> Undef,
     mobile |-> Undef, proxy |-> Undef, hosting |-> Undef]

IpApiRich(ip) ==
    [IpApiNone EXCEPT
        !.status = Str(success),
        !.query = Str(ip),
        !.country = Str(<<"P", "o", "l", "a", "n", "d">>),
        !.countryCode = Str(<<"P", "L">>),
        !.regionName = Str(<<"M", "a", "z", "o", "v", "i", "a">>),
        !.city = Str(<<"W", "a", "r", "s", "a", "w">>),
        !.zip = Str(<<"0", "0", "-", "0", "0", "1">>),
        !.lat = Num(52),
        !.lon = Num(21),
        !.timezone = Str(<<"E", "u", "r", "o", "p", "e", "/", "W", "a", "r", "s", "a", "w">>),
        !.isp = Str(<<"p", "-", "i", "s", "p">>),
        !.org = Str(<<"p", "-", "o", "r", "g">>),
        !.as = Str(<<"A", "S", "5", "6", "1", "7", " ", "p", "-", "a", "s">>),
        !.asname = Str(<<"p", "-", "a", "s", "n", "a", "m", "e">>),
        !.reverse = Str(<<"p", ".", "e", "x", "a", "m", "p", "l", "e">>),
        !.mobile = Bool(FALSE),
        !.proxy = Bool(TRUE),
        !.hosting = Bool(FALSE)]

\* A second location, for distance.
IpApiOther(ip) ==
    [IpApiRich(ip) EXCEPT
        !.country = Str(<<"P", "e", "r", "u">>),
        !.countryCode = Str(<<"P", "E">>),
        !.city = Str(<<"L", "i", "m", "a">>),
        !.lat = Num(-12),
        !.lon = Num(-77)]

\* A success whose values are all falsy: the point 0,0, empty texts, false flags.
IpApiFalsy(ip) ==
    [IpApiNone EXCEPT
        !.status = Str(success),
        !.query = Str(ip),
        !.country = Str(<<>>),
        !.countryCode = Str(<<>>),
        !.regionName = Str(<<>>),
        !.city = Str(<<>>),
        !.zip = Str(<<>>),
        !.lat = Num(0),
        !.lon = Num(0),
        !.timezone = Str(<<>>),
        !.isp = Str(<<>>),
        !.org = Str(<<>>),
        !.as = Str(<<>>),
        !.asname = Str(<<>>),
        !.reverse = Str(<<>>),
        !.mobile = Bool(FALSE),
        !.proxy = Bool(FALSE),
        !.hosting = Bool(FALSE)]

IpApiFail(ip) ==
    [IpApiNone EXCEPT
        !.status = Str(fail),
        !.message = Str(ReservedRange),
        !.query = Str(ip)]

IpApiFailNoMessage(ip) ==
    [IpApiNone EXCEPT
        !.status = Str(fail),
        !.query = Str(ip)]

\* A success with the four risk signals set as given.
IpApiSignals(ip, proxy, hosting, mobile, reverse) ==
    [IpApiRich(ip) EXCEPT
        !.proxy = Bool(proxy),
        !.hosting = Bool(hosting),
        !.mobile = Bool(mobile),
        !.reverse = Str(reverse)]

\* ipinfo.io
IpInfoNone ==
    [nullish |-> FALSE,
     ip |-> Undef, hostname |-> Undef, anycast |-> Undef, city |-> Undef,
     region |-> Undef, country |-> Undef, loc |-> Undef, org |-> Undef,
     postal |-> Undef, timezone |-> Undef]

IpInfoRich(ip) ==
    [IpInfoNone EXCEPT
        !.ip = Str(ip),
        !.hostname = Str(<<"s", ".", "e", "x", "a", "m", "p", "l", "e">>),
        !.anycast = Bool(TRUE),
        !.city = Str(<<"U", "p", "p", "s", "a", "l", "a">>),
        !.region = Str(<<"U", "p", "p", "l", "a", "n", "d">>),
        !.country = Str(<<"S", "E">>),
        !.loc = Str(<<"5", "9", ",", "1", "7">>),
        !.org = Str(<<"A", "S", "1", "2", "5", "7", " ", "s", "-", "o", "r", "g">>),
        !.postal = Str(<<"7", "5", "0", "0", "2">>),
        !.timezone = Str(<<"E", "u", "r", "o", "p", "e", "/", "S", "t", "o", "c", "k", "h", "o", "l", "m">>)]

\* Only the address and the country; anycast is reported false.
IpInfoSparse(ip) ==
    [IpInfoNone EXCEPT
        !.ip = Str(ip),
        !.country = Str(<<"S", "E">>),
        !.anycast = Bool(FALSE)]

\* A loc without a comma and without a number.
IpInfoBadLoc(ip) ==
    [IpInfoNone EXCEPT
        !.ip = Str(ip),
        !.loc = Str(<<"n", "/", "a">>)]

\* ipwho.is: timezone and connection are objects.
IpWhoNone ==
    [nullish |-> FALSE,
     ip |-> Undef, country |-> Undef, country_code |-> Undef, region |-> Undef,
     city |-> Undef, postal |-> Undef, latitude |-> Undef, longitude |-> Undef,
     timezone |-> Nullish, connection |-> Nullish]

IpWhoRich(ip) ==
    [IpWhoNone EXCEPT
        !.ip = Str(ip),
        !.country = Str(<<"T", "o", "g", "o">>),
        !.country_code = Str(<<"T", "G">>),
        !.region = Str(<<"M", "a", "r", "i", "t", "i", "m", "e">>),
        !.city = Str(<<"L", "o", "m", "e">>),
        !.postal = Str(<<"0", "1", "B", "P">>),
        !.latitude = Num(6),
        !.longitude = Num(1),
        !.timezone = [nullish |-> FALSE, id |-> Str(<<"A", "f", "r", "i", "c", "a", "/", "L", "o", "m", "e">>)],
        !.connection = [nullish |-> FALSE, asn |-> Num(24691), org |-> Str(<<"t", "-", "o", "r", "g">>),
                    isp |-> Str(<<"t", "-", "i", "s", "p">>), domain |-> Str(<<"t", ".", "e", "x", "a", "m", "p", "l", "e">>)]]

\* No timezone and no connection object; the point 0,0.
IpWhoSparse(ip) ==
    [IpWhoNone EXCEPT
        !.ip = Str(ip),
        !.country = Str(<<"T", "o", "g", "o">>),
        !.latitude = Num(0),
        !.longitude = Num(0)]

\* The JSON bodies a provider may answer a request of operation op with.
\* The JSON text "null" is a body too.
Bodies(op, provider, ip) ==
    CASE provider = IpInfoIo ->
            {IpInfoRich(ip), IpInfoSparse(ip), IpInfoBadLoc(ip), Nullish}
      [] provider = IpWhoIs ->
            {IpWhoRich(ip), IpWhoSparse(ip), Nullish}
      [] op = "full" ->
            {IpApiRich(ip), IpApiFalsy(ip), IpApiNone, IpApiFail(ip), Nullish}
      [] op = "threat" ->
            {IpApiSignals(ip, p, h, m, r) :
                p \in BOOLEAN, h \in BOOLEAN, m \in BOOLEAN,
                r \in {<<>>, IP_host}}
            \cup {IpApiFail(ip), Nullish}
      [] op = "distance" ->
            {IpApiRich(ip), IpApiOther(ip), IpApiFail(ip), Nullish}
      [] op = "lookup" ->
            {IpApiRich(ip), IpApiFail(ip), IpApiFailNoMessage(ip), Nullish}
      [] OTHER ->
            {IpApiRich(ip), IpApiFail(ip), Nullish}

\* What the network does to one request: fetch throws, the timeout aborts
\* it, the status is not 2xx, the body does not parse, or a body arrives.
NetOutcomes(op, provider, ip) ==
    {[kind |-> k, body |-> Nullish] :
        k \in {"network_error", "timeout", "http_error", "bad_json"}}
    \cup {[kind |-> "ok", body |-> b] : b \in Bodies(op, provider, ip)}

-----------------------------------------------------------------------------
(* fetchJSON: the promise it returns, settled.                              *)

Rejected == [state |-> "rejected", value |-> Nullish]
Fulfilled(v) == [state |-> "fulfilled", value |-> v]
Pending == [state |-> "pending", value |-> Nullish]

fetchJSON(net) ==
    IF net.kind = "ok" THEN Fulfilled(net.body) ELSE Rejected

-----------------------------------------------------------------------------
(* Promise combinators, over a sequence of settled-or-pending promises.     *)

\* Promise.all: rejects with the first rejection, fulfils when all have.
PromiseAll(ps) ==
    IF \E i \in DOMAIN ps : ps[i].state = "rejected" THEN Rejected
    ELSE IF \A i \in DOMAIN ps : ps[i].state = "fulfilled"
         THEN Fulfilled([i \in DOMAIN ps |-> ps[i].value])
         ELSE Pending

\* (C8 mutant) allSettled that gives up waiting at the first rejection.
PromiseAllSettledFailFast(ps) ==
    IF (\E i \in DOMAIN ps : ps[i].state = "rejected")
       \/ (\A i \in DOMAIN ps : ps[i].state # "pending")
    THEN Fulfilled(ps)
    ELSE Pending

\* Promise.allSettled: fulfils, with every outcome, once none is pending.
PromiseAllSettled(ps) ==
    IF \A i \in DOMAIN ps : ps[i].state # "pending"
    THEN Fulfilled(ps)
    ELSE Pending

-----------------------------------------------------------------------------
(* What a handler hands back: a returned output or a rejected promise.      *)

Return(out) == [state |-> "returned", output |-> out]
Throw == [state |-> "rejected", output |-> Nullish]
Awaiting == [state |-> "awaiting", output |-> Nullish]
NotCalled == [state |-> "none", output |-> Nullish]

\* { error: 'Invalid IP address format', ip }
InvalidIPOutput(ip) == [error |-> Str(InvalidIPFormat), ip |-> Str(ip)]

(* lookup, from the settled fetch on.  An await of a rejected promise       *)
(* throws, and so does reading a property of null; nothing catches either.  *)
lookupResume(ip, fetched) ==
    IF fetched.state = "rejected" THEN Throw
    ELSE LET data == fetched.value
         IN  IF data.nullish THEN Throw
             ELSE IF data.status # Str(success)
             THEN Return([error |-> Or(data.message, Str(LookupFailed)),
                          ip |-> Str(ip)])
             ELSE Return(
                 [error |-> Undef,
                  ip |-> data.query,
                  location |->
                     [country |-> data.country,
                      countryCode |-> data.countryCode,
                      region |-> data.regionName,
                      city |-> data.city,
                      zip |-> data.zip,
                      lat |-> data.lat,
                      lon |-> data.lon,
                      timezone |-> data.timezone],
                  network |->
                     [isp |-> data.isp,
                      org |-> data.org,
                      asn |-> data.as,
                      asnName |-> data.asname]])

(* full, from the three settled fetches on.                                 *)
ValueOrNull(settled) ==
    IF settled.state = "fulfilled" THEN settled.value ELSE Nullish

\* secondary?.loc ? parseFloat(secondary.loc.split(',')[k]) : null
LocPart(secondary, k) ==
    IF Truthy(Opt(secondary, "loc"))
    THEN ParseFloat(At(Split(secondary.loc.s, ","), k))
    ELSE Null

\* [primary, secondary, tertiary].filter(Boolean).length
sourcesResponded(primary, secondary, tertiary) ==
    Cardinality({i \in 1..3 : ~<<primary, secondary, tertiary>>[i].nullish})

fullOutput(ip, primary, secondary, tertiary) ==
    LET connection == OptObj(tertiary, "connection")
    IN
    [error |-> Undef,
     ip |-> Str(ip),
     location |->
        [country |-> Or(Or(Opt(primary, "country"), Opt(secondary, "country")),
                        Opt(tertiary, "country")),
         countryCode |-> Or(Or(Opt(primary, "countryCode"), Opt(secondary, "country")),
                            Opt(tertiary, "country_code")),
         region |-> Or(Or(Opt(primary, "regionName"), Opt(secondary, "region")),
                       Opt(tertiary, "region")),
         city |-> Or(Or(Opt(primary, "city"), Opt(secondary, "city")),
                     Opt(tertiary, "city")),
         zip |-> Or(Or(Opt(primary, "zip"), Opt(secondary, "postal")),
                    Opt(tertiary, "postal")),
         lat |-> Or(Or(Opt(primary, "lat"), LocPart(secondary, 0)),
                    Opt(tertiary, "latitude")),
         lon |-> Or(Or(Opt(primary, "lon"), LocPart(secondary, 1)),
                    Opt(tertiary, "longitude")),
         timezone |-> Or(Or(Opt(primary, "timezone"), Opt(secondary, "timezone")),
                         Opt(OptObj(tertiary, "timezone"), "id"))],
     network |->
        [isp |-> Or(Opt(primary, "isp"), Opt(connection, "isp")),
         org |-> Or(Or(Opt(primary, "org"), Opt(secondary, "org")),
                    Opt(connection, "org")),
         asn |-> Or(Or(Opt(primary, "as"), Opt(secondary, "org")),
                    Str(AS \o ToStr(Opt(connection, "asn")))),
         hostname |-> Or(Opt(primary, "reverse"), Opt(secondary, "hostname")),
         domain |-> Opt(connection, "domain")],
     threat |->
        [isProxy |-> Coalesce(Opt(primary, "proxy"), Bool(FALSE)),
         isVPN |-> Coalesce(Opt(primary, "proxy"), Bool(FALSE)),
         isHosting |-> Coalesce(Opt(primary, "hosting"), Bool(FALSE)),
         isMobile |-> Coalesce(Opt(primary, "mobile"), Bool(FALSE)),
         isAnycast |-> Coalesce(Opt(secondary, "anycast"), Bool(FALSE))],
     confidence |->
        [sourcesQueried |-> 3,
         sourcesResponded |-> sourcesResponded(primary, secondary, tertiary)]]

fullResume(ip, settled) ==
    Return(fullOutput(ip, ValueOrNull(settled[1]), ValueOrNull(settled[2]),
                      ValueOrNull(settled[3])))


(* batch                                                                    *)
\* (C9 mutant) every address taken for a valid one.
validIPsUnfiltered(ips) == ips

validIPs(ips) == SelectSeq(ips, isValidIP)

invalidIPs(ips) == SelectSeq(ips, LAMBDA ip : ~isValidIP(ip))

\* An item that holds only ip and error.
ItemError(ip, message) ==
    [ip |-> Str(ip), error |-> Str(message),
     country |-> Undef, countryCode |-> Undef, city |-> Undef, lat |-> Undef,
     lon |-> Undef, isp |-> Undef, org |-> Undef, asn |-> Undef,
     isProxy |-> Undef, isHosting |-> Undef]

\* The try block of the async function mapped over validIPs, after its
\* await, for a body that is an object.
itemOf(ip, data) ==
    IF data.status # Str(success)
    THEN ItemError(ip, LookupFailed)
    ELSE [ip |-> data.query, error |-> Undef,
          country |-> data.country,
          countryCode |-> data.countryCode,
          city |-> data.city,
          lat |-> data.lat,
          lon |-> data.lon,
          isp |-> data.isp,
          org |-> data.org,
          asn |-> data.as,
          isProxy |-> data.proxy,
          isHosting |-> data.hosting]

\* (C1 mutant) the async function without its try/catch.
batchItemNoCatch(ip, fetched) ==
    IF fetched.state = "rejected" \/ fetched.value.nullish
    THEN Rejected
    ELSE Fulfilled(itemOf(ip, fetched.value))

\* The async function mapped over validIPs, from its settled fetch on: the
\* promise of one item.  The catch takes the rejected fetch and the
\* TypeError of reading data.status of null.
batchItem(ip, fetched) ==
    IF fetched.state = "rejected" \/ fetched.value.nullish
    THEN Fulfilled(ItemError(ip, RequestFailed))
    ELSE Fulfilled(itemOf(ip, fetched.value))

\* (C10 mutant) invalidIPs handed over as it is, empty or not.
batchOutputAlwaysList(ips, results) ==
    [error |-> Undef,
     results |-> results,
     invalidIPs |-> Arr(invalidIPs(ips)),
     count |->
        [requested |-> Len(ips),
         valid |-> Len(validIPs(ips)),
         invalid |-> Len(invalidIPs(ips))]]

batchOutput(ips, results) ==
    [error |-> Undef,
     results |-> results,
     invalidIPs |-> IF Len(invalidIPs(ips)) > 0 THEN Arr(invalidIPs(ips)) ELSE Undef,
     count |->
        [requested |-> Len(ips),
         valid |-> Len(validIPs(ips)),
         invalid |-> Len(invalidIPs(ips))]]

\* From the settling of Promise.all(items) on.
batchResume(ips, all) ==
    IF all.state = "rejected" THEN Throw
    ELSE Return(batchOutput(ips, all.value))

(* threat                                                                   *)
\* One if-statement of the risk calculation.
RiskRule(risk, fires, points, factor) ==
    IF fires
    THEN [score |-> risk.score + points, factors |-> Append(risk.factors, factor)]
    ELSE risk

\* (C6 mutant) the thresholds taken as exclusive.
riskLevelExclusive(riskScore) ==
    IF riskScore > 50 THEN "high"
    ELSE IF riskScore > 20 THEN "medium"
    ELSE "low"

riskLevel(riskScore) ==
    IF riskScore >= 50 THEN "high"
    ELSE IF riskScore >= 20 THEN "medium"
    ELSE "low"

riskOf(data) ==
    LET r0 == [score |-> 0, factors |-> <<>>]
        r1 == RiskRule(r0, Truthy(data.proxy), 40, "proxy_or_vpn")
        r2 == RiskRule(r1, Truthy(data.hosting), 30, "datacenter_hosting")
        r3 == RiskRule(r2, Truthy(data.mobile), 10, "mobile_carrier")
        r4 == RiskRule(r3, ~Truthy(data.reverse), 10, "no_reverse_dns")
    IN  [score |-> r4.score, level |-> riskLevel(r4.score), factors |-> r4.factors]

threatResume(ip, fetched) ==
    IF fetched.state = "rejected" THEN Throw
    ELSE LET data == fetched.value
         IN  IF data.nullish THEN Throw
             ELSE IF data.status # Str(success)
             THEN Return([error |-> Or(data.message, Str(LookupFailed)),
                          ip |-> Str(ip)])
             ELSE Return(
                 [error |-> Undef,
                  ip |-> data.query,
                  threat |->
                     [isProxy |-> data.proxy,
                      isVPN |-> data.proxy,
                      isHosting |-> data.hosting,
                      isMobile |-> data.mobile,
                      hasReverseDNS |-> Bool(Truthy(data.reverse)),
                      reverseDNS |-> Or(data.reverse, Null)],
                  risk |-> riskOf(data),
                  network |->
                     [isp |-> data.isp,
                      org |-> data.org,
                      asn |-> data.as,
                      asnName |-> data.asname]])

(* distance, from the settling of Promise.all of its two fetches on.  The   *)
(* km and miles of the haversine value are not represented.                 *)
distanceResume(ip1, ip2, all) ==
    IF all.state = "rejected" THEN Throw
    ELSE LET data1 == all.value[1]
             data2 == all.value[2]
         IN  IF data1.nullish THEN Throw
             ELSE IF data1.status = Str(success) /\ data2.nullish THEN Throw
             ELSE IF data1.status # Str(success) \/ data2.status # Str(success)
             THEN Return([error |-> Str(BothLookupsFailed),
                          ip1 |-> Str(ip1), ip2 |-> Str(ip2)])
             ELSE Return(
                 [error |-> Undef,
                  ip1 |-> [ip |-> data1.query, country |-> data1.country,
                           city |-> data1.city, lat |-> data1.lat, lon |-> data1.lon],
                  ip2 |-> [ip |-> data2.query, country |-> data2.country,
                           city |-> data2.city, lat |-> data2.lat, lon |-> data2.lon],
                  sameCountry |-> Bool(data1.country = data2.country),
                  sameCity |-> Bool(data1.city = data2.city)])

-----------------------------------------------------------------------------
(* The state of one request.                                                *)

VARIABLES
    op,        \* the entrypoint invoked, "idle" before
    input,     \* ctx.input: the address or addresses given
    fetches,   \* the fetchJSON calls issued, in the order of issue
    items,     \* batch: the promises of the mapped async function
    response   \* the handler's promise: awaiting, returned or rejected

vars == <<op, input, fetches, items, response>>

\* A call fetchJSON(url) for address ip at provider, not yet settled.
Fetch(ip, provider) == [ip |-> ip, provider |-> provider, result |-> Pending]

Results(fs) == [i \in DOMAIN fs |-> fs[i].result]

Init ==
    /\ op = "idle"
    /\ input = <<>>
    /\ fetches = <<>>
    /\ items = <<>>
    /\ response = NotCalled

(* Invocation: the handler runs to its first await or to its return.        *)

InvokeLookup(ip) ==
    /\ op = "idle"
    /\ op' = "lookup"
    /\ input' = <<ip>>
    /\ items' = <<>>
    /\ IF ~isValidIP(ip)
       THEN response' = Return(InvalidIPOutput(ip)) /\ fetches' = <<>>
       ELSE response' = Awaiting /\ fetches' = <<Fetch(ip, IpApiCom)>>

InvokeFull(ip) ==
    /\ op = "idle"
    /\ op' = "full"
    /\ input' = <<ip>>
    /\ items' = <<>>
    /\ IF ~isValidIP(ip)
       THEN response' = Return(InvalidIPOutput(ip)) /\ fetches' = <<>>
       ELSE /\ response' = Awaiting
            /\ fetches' = <<Fetch(ip, IpApiCom), Fetch(ip, IpInfoIo), Fetch(ip, IpWhoIs)>>

InvokeBatch(ips) ==
    /\ op = "idle"
    /\ op' = "batch"
    /\ input' = ips
    /\ fetches' = [i \in DOMAIN validIPs(ips) |-> Fetch(validIPs(ips)[i], IpApiCom)]
    /\ items' = [i \in DOMAIN validIPs(ips) |-> Pending]
    /\ response' = Awaiting

InvokeThreat(ip) ==
    /\ op = "idle"
    /\ op' = "threat"
    /\ input' = <<ip>>
    /\ items' = <<>>
    /\ IF ~isValidIP(ip)
       THEN response' = Return(InvalidIPOutput(ip)) /\ fetches' = <<>>
       ELSE response' = Awaiting /\ fetches' = <<Fetch(ip, IpApiCom)>>

InvokeDistance(ip1, ip2) ==
    /\ op = "idle"
    /\ op' = "distance"
    /\ input' = <<ip1, ip2>>
    /\ items' = <<>>
    /\ IF ~isValidIP(ip1) \/ ~isValidIP(ip2)
       THEN /\ response' = Return([error |-> Str(InvalidIPFormat),
                                   ip1 |-> Str(ip1), ip2 |-> Str(ip2)])
            /\ fetches' = <<>>
       ELSE /\ response' = Awaiting
            /\ fetches' = <<Fetch(ip1, IpApiCom), Fetch(ip2, IpApiCom)>>

(* A pending fetch settles.  In batch the item's async function resumes in  *)
(* the same turn (a microtask of the settling), before any other fetch can  *)
(* settle.                                                                  *)

FetchSettles(i) ==
    /\ op \in {"lookup", "full", "threat", "distance"}
    /\ i \in DOMAIN fetches
    /\ fetches[i].result.state = "pending"
    /\ \E net \in NetOutcomes(op, fetches[i].provider, fetches[i].ip) :
          fetches' = [fetches EXCEPT ![i].result = fetchJSON(net)]
    /\ UNCHANGED <<op, input, items, response>>

\* (C7 mutant) the item stored at the next free place, in completion order.
BatchFetchSettlesInCompletionOrder(i) ==
    /\ op = "batch"
    /\ i \in DOMAIN fetches
    /\ fetches[i].result.state = "pending"
    /\ \E net \in NetOutcomes(op, fetches[i].provider, fetches[i].ip) :
          LET free == CHOOSE k \in DOMAIN items :
                          /\ items[k].state = "pending"
                          /\ \A j \in 1..(k - 1) : items[j].state # "pending"
          IN  /\ fetches' = [fetches EXCEPT ![i].result = fetchJSON(net)]
              /\ items' = [items EXCEPT
                             ![free] = batchItem(fetches[i].ip, fetchJSON(net))]
    /\ UNCHANGED <<op, input, response>>

BatchFetchSettles(i) ==
    /\ op = "batch"
    /\ i \in DOMAIN fetches
    /\ fetches[i].result.state = "pending"
    /\ \E net \in NetOutcomes(op, fetches[i].provider, fetches[i].ip) :
          /\ fetches' = [fetches EXCEPT ![i].result = fetchJSON(net)]
          /\ items' = [items EXCEPT ![i] = batchItem(fetches[i].ip, fetchJSON(net))]
    /\ UNCHANGED <<op, input, response>>

(* The awaiting handler resumes once the promise it awaits has settled.     *)

ResumeLookup ==
    /\ op = "lookup"
    /\ response.state = "awaiting"
    /\ fetches[1].result.state # "pending"
    /\ response' = lookupResume(input[1], fetches[1].result)
    /\ UNCHANGED <<op, input, fetches, items>>

ResumeFull ==
    /\ op = "full"
    /\ response.state = "awaiting"
    /\ PromiseAllSettled(Results(fetches)).state # "pending"
    /\ response' = fullResume(input[1], PromiseAllSettled(Results(fetches)).value)
    /\ UNCHANGED <<op, input, fetches, items>>

ResumeBatch ==
    /\ op = "batch"
    /\ response.state = "awaiting"
    /\ PromiseAll(items).state # "pending"
    /\ response' = batchResume(input, PromiseAll(items))
    /\ UNCHANGED <<op, input, fetches, items>>

ResumeThreat ==
    /\ op = "threat"
    /\ response.state = "awaiting"
    /\ fetches[1].result.state # "pending"
    /\ response' = threatResume(input[1], fetches[1].result)
    /\ UNCHANGED <<op, input, fetches, items>>

ResumeDistance ==
    /\ op = "distance"
    /\ response.state = "awaiting"
    /\ PromiseAll(Results(fetches)).state # "pending"
    /\ response' = distanceResume(input[1], input[2], PromiseAll(Results(fetches)))
    /\ UNCHANGED <<op, input, fetches, items>>

Next ==
    \/ \E ip \in ProbeIPs : InvokeLookup(ip)
    \/ \E ip \in ProbeIPs : InvokeFull(ip)
    \/ \E ips \in BatchInputs : InvokeBatch(ips)
    \/ \E ip \in ProbeIPs : InvokeThreat(ip)
    \/ \E ip1 \in ProbeIPs, ip2 \in ProbeIPs : InvokeDistance(ip1, ip2)
    \/ \E i \in 1..3 : FetchSettles(i)
    \/ \E i \in 1..MaxIPs : BatchFetchSettles(i)
    \/ ResumeLookup
    \/ ResumeFull
    \/ ResumeBatch
    \/ ResumeThreat
    \/ ResumeDistance

Spec == Init /\ [][Next]_vars

-----------------------------------------------------------------------------
(* Properties.  Helper definitions first.                                   *)

Settled == response.state \in {"returned", "rejected"}

\* The handler returned an output without an error.
ReturnedData == response.state = "returned" /\ response.output.error = Undef

\* The positions of the valid addresses of the input, in input order.
ValidPositions == {k \in DOMAIN input : isValidIP(input[k])}
InvalidPositions == DOMAIN input \ ValidPositions

\* The input position of the i-th valid address.
NthValid(i) ==
    CHOOSE k \in ValidPositions :
        Cardinality({j \in ValidPositions : j <= k}) = i

NthInvalid(i) ==
    CHOOSE k \in InvalidPositions :
        Cardinality({j \in InvalidPositions : j <= k}) = i

\* A fetch that threw, timed out or brought no success status.
Faulty(fetched) ==
    \/ fetched.state = "rejected"
    \/ /\ fetched.state = "fulfilled"
       /\ (fetched.value.nullish \/ fetched.value.status # Str(success))

AllFetchesSettled == \A i \in DOMAIN fetches : fetches[i].result.state # "pending"

\* C1: a batch never rejects; once it has returned, every valid address
\* whose fetch was faulty is reported as {ip, error} and nothing else, and
\* every other valid address carries the data of its provider record; once
\* all fetches have settled the handler can return.
C1_BatchFailureIsolation ==
    op = "batch" =>
      /\ response.state # "rejected"
      /\ (AllFetchesSettled /\ response.state = "awaiting") => ENABLED ResumeBatch
      /\ response.state = "returned" =>
           LET results == response.output.results
           IN  /\ Len(results) = Len(fetches)
               /\ \A i \in DOMAIN fetches :
                     LET fetched == fetches[i].result
                         data == fetched.value
                         r == results[i]
                     IN  IF Faulty(fetched)
                         THEN /\ r.error \in {Str(RequestFailed), Str(LookupFailed)}
                              /\ r = ItemError(fetches[i].ip, r.error.s)
                         ELSE /\ r.error = Undef
                              /\ r.ip = data.query
                              /\ r.country = data.country
                              /\ r.countryCode = data.countryCode
                              /\ r.city = data.city
                              /\ r.lat = data.lat /\ r.lon = data.lon
                              /\ r.isp = data.isp /\ r.org = data.org
                              /\ r.asn = data.as
                              /\ r.isProxy = data.proxy
                              /\ r.isHosting = data.hosting

\* A batch returned with a rejected fetch, a failure status and a success.
C1_Witness ==
    /\ op = "batch"
    /\ response.state = "returned"
    /\ \E i \in DOMAIN fetches : fetches[i].result.state = "rejected"
    /\ \E i \in DOMAIN fetches :
          /\ fetches[i].result.state = "fulfilled"
          /\ ~fetches[i].result.value.nullish
          /\ fetches[i].result.value.status = Str(fail)
    /\ \E i \in DOMAIN fetches : response.output.results[i].error = Undef

\* C2: no operation rejects, and a single-source operation whose fetch
\* failed hands the failure back in output.error.
C2_NeverThrows ==
    /\ response.state # "rejected"
    /\ ( /\ op \in {"lookup", "threat", "distance"}
         /\ Settled
         /\ \E i \in DOMAIN fetches : fetches[i].result.state = "rejected" )
       => (response.state = "returned" /\ response.output.error.t = "string")

-----------------------------------------------------------------------------
(* full: what each source supplies for each output field.                   *)

Primary == ValueOrNull(fetches[1].result)
Secondary == ValueOrNull(fetches[2].result)
Tertiary == ValueOrNull(fetches[3].result)

\* Undefined, null and a failed numeric parse are absent; anything else,
\* false, 0 and "" included, is present.
Present(v) == v.t \notin {"undefined", "null", "nan"}

\* The first present value of vs, in order; undefined when there is none.
FirstPresent(vs) ==
    IF \E i \in DOMAIN vs : Present(vs[i])
    THEN vs[CHOOSE i \in DOMAIN vs :
                Present(vs[i]) /\ \A j \in 1..(i - 1) : ~Present(vs[j])]
    ELSE Undef

\* Per output field, the values of primary, secondary and tertiary.
Supplied(p, s, t) ==
    [country |-> <<Opt(p, "country"), Opt(s, "country"), Opt(t, "country")>>,
     countryCode |-> <<Opt(p, "countryCode"), Opt(s, "country"), Opt(t, "country_code")>>,
     region |-> <<Opt(p, "regionName"), Opt(s, "region"), Opt(t, "region")>>,
     city |-> <<Opt(p, "city"), Opt(s, "city"), Opt(t, "city")>>,
     zip |-> <<Opt(p, "zip"), Opt(s, "postal"), Opt(t, "postal")>>,
     lat |-> <<Opt(p, "lat"), LocPart(s, 0), Opt(t, "latitude")>>,
     lon |-> <<Opt(p, "lon"), LocPart(s, 1), Opt(t, "longitude")>>,
     timezone |-> <<Opt(p, "timezone"), Opt(s, "timezone"),
                    Opt(OptObj(t, "timezone"), "id")>>,
     isp |-> <<Opt(p, "isp"), Undef, Opt(OptObj(t, "connection"), "isp")>>,
     org |-> <<Opt(p, "org"), Opt(s, "org"), Opt(OptObj(t, "connection"), "org")>>,
     asn |-> <<Opt(p, "as"), Opt(s, "org"),
               IF Present(Opt(OptObj(t, "connection"), "asn"))
               THEN Str(AS \o ToStr(Opt(OptObj(t, "connection"), "asn")))
               ELSE Undef>>,
     hostname |-> <<Opt(p, "reverse"), Opt(s, "hostname"), Undef>>,
     domain |-> <<Undef, Undef, Opt(OptObj(t, "connection"), "domain")>>,
     isProxy |-> <<Opt(p, "proxy"), Undef, Undef>>,
     isVPN |-> <<Opt(p, "proxy"), Undef, Undef>>,
     isHosting |-> <<Opt(p, "hosting"), Undef, Undef>>,
     isMobile |-> <<Opt(p, "mobile"), Undef, Undef>>,
     isAnycast |-> <<Undef, Opt(s, "anycast"), Undef>>]

LocationFields ==
    {"country", "countryCode", "region", "city", "zip", "lat", "lon", "timezone"}
NetworkFields == {"isp", "org", "asn", "hostname", "domain"}
ThreatFields == {"isProxy", "isVPN", "isHosting", "isMobile", "isAnycast"}

\* The merged value of a field of the full output.
Merged(f) ==
    IF f \in LocationFields THEN response.output.location[f]
    ELSE IF f \in NetworkFields THEN response.output.network[f]
    ELSE response.output.threat[f]

FullReturned == op = "full" /\ ReturnedData

\* C3: every location and network field of the full output is the first
\* present value in the order primary, secondary, tertiary, a present
\* falsy value included; a threat flag that a source supplies is handed on.
\* (asn, whose tertiary value is synthesised, is left to C5.)
C3_FirstPresentWins ==
    FullReturned =>
      LET sup == Supplied(Primary, Secondary, Tertiary)
      IN  /\ \A f \in LocationFields \cup (NetworkFields \ {"asn"}) :
                Merged(f) = FirstPresent(sup[f])
          /\ \A f \in ThreatFields :
                Present(FirstPresent(sup[f])) => Merged(f) = FirstPresent(sup[f])

\* A provider that answered with a success status.
Usable(i) ==
    /\ fetches[i].result.state = "fulfilled"
    /\ ~fetches[i].result.value.nullish
    /\ (i = 1 => fetches[i].result.value.status = Str(success))

UsableOrNull(i) == IF Usable(i) THEN fetches[i].result.value ELSE Nullish

\* C4: the full output is the one of the usable providers alone, a provider
\* with a failure status counting as unavailable; sourcesResponded is the
\* number of usable providers and sourcesQueried is 3.
C4_FailureStatusIsAbsent ==
    FullReturned =>
      /\ response.output.confidence.sourcesQueried = 3
      /\ response.output.confidence.sourcesResponded =
            Cardinality({i \in 1..3 : Usable(i)})
      /\ response.output =
            fullOutput(input[1], UsableOrNull(1), UsableOrNull(2), UsableOrNull(3))

\* The providers whose fetch brought an object.
Responding == {i \in 1..3 : ~ValueOrNull(fetches[i].result).nullish}

\* C5: with one responding provider and two rejected fetches,
\* sourcesResponded is 1 of 3 and every field is absent or the value that
\* provider supplied; with three rejected fetches every field is absent.
C5_SingleSourceIdentity ==
    ( /\ FullReturned
      /\ Cardinality(Responding) <= 1
      /\ \A i \in (1..3) \ Responding : fetches[i].result.state = "rejected" )
    => LET sup == Supplied(Primary, Secondary, Tertiary)
       IN  /\ response.output.confidence.sourcesQueried = 3
           /\ response.output.confidence.sourcesResponded = Cardinality(Responding)
           /\ \A f \in LocationFields \cup NetworkFields \cup ThreatFields :
                 \/ Merged(f) = Undef
                 \/ \E i \in Responding : Present(sup[f][i]) /\ Merged(f) = sup[f][i]

-----------------------------------------------------------------------------
(* threat                                                                   *)

\* 1 when the signal fires, else 0
Fires(b) == IF b THEN 1 ELSE 0

\* The provider record with one more signal made to fire.
OneMoreSignal(data) ==
    {[data EXCEPT !.proxy = Bool(TRUE)],
     [data EXCEPT !.hosting = Bool(TRUE)],
     [data EXCEPT !.mobile = Bool(TRUE)],
     [data EXCEPT !.reverse = Str(<<>>)]}

\* C6: the risk of a threat output is the rule table of its provider record:
\* the weighted sum 40, 30, 10, 10, within 0..90; the fired rules in table
\* order; high from 50, medium from 20, low below; and no further signal
\* lowers the score.
C6_RiskRuleTable ==
    (op = "threat" /\ ReturnedData) =>
      LET data == fetches[1].result.value
          risk == response.output.risk
          fired == <<Truthy(data.proxy), Truthy(data.hosting),
                     Truthy(data.mobile), ~Truthy(data.reverse)>>
          names == <<"proxy_or_vpn", "datacenter_hosting",
                     "mobile_carrier", "no_reverse_dns">>
          firedAt == {i \in 1..4 : fired[i]}
      IN  /\ risk.score = 40 * Fires(fired[1]) + 30 * Fires(fired[2])
                          + 10 * Fires(fired[3]) + 10 * Fires(fired[4])
          /\ risk.score \in 0..90
          /\ Len(risk.factors) = Cardinality(firedAt)
          /\ \A i \in firedAt :
                risk.factors[Cardinality({j \in firedAt : j <= i})] = names[i]
          /\ (risk.level = "high") = (risk.score >= 50)
          /\ (risk.level = "medium") = (20 <= risk.score /\ risk.score < 50)
          /\ (risk.level = "low") = (risk.score < 20)
          /\ \A more \in OneMoreSignal(data) : riskOf(more).score >= risk.score

\* A threat output on the threshold 50: proxy and one 10-point rule.
C6_Witness ==
    /\ op = "threat"
    /\ ReturnedData
    /\ response.output.risk.score = 50
    /\ response.output.risk.level = "high"
    /\ Len(response.output.risk.factors) = 2

-----------------------------------------------------------------------------
(* batch                                                                    *)

\* C7: a returned batch holds one entry per valid input address, the i-th
\* entry being the outcome of the fetch issued for the i-th valid address
\* and naming that address, and its count is
\* requested = |input|, valid = |results|, invalid = the number of invalid
\* addresses, with valid + invalid = requested.
C7_BatchOrderAndCount ==
    (op = "batch" /\ response.state = "returned") =>
      LET out == response.output
      IN  /\ Len(out.results) = Cardinality(ValidPositions)
          /\ \A i \in DOMAIN out.results :
                /\ fetches[i].ip = input[NthValid(i)]
                /\ out.results[i].ip =
                      IF Faulty(fetches[i].result)
                      THEN Str(fetches[i].ip)
                      ELSE fetches[i].result.value.query
                /\ out.results[i].ip = Str(input[NthValid(i)])
          /\ out.count.requested = Len(input)
          /\ out.count.valid = Len(out.results)
          /\ out.count.invalid = Cardinality(InvalidPositions)
          /\ out.count.valid + out.count.invalid = out.count.requested

\* A returned batch of two different valid addresses with an invalid one
\* between them: the second entry is that of the third address.
C7_Witness ==
    /\ op = "batch"
    /\ response.state = "returned"
    /\ Len(input) = 3
    /\ isValidIP(input[1]) /\ ~isValidIP(input[2]) /\ isValidIP(input[3])
    /\ input[1] # input[3]
    /\ response.output.results[2].ip = Str(input[3])

\* C8: full issues its three fetches together; full and batch settle only
\* in a state where every fetch has settled; and a step in which one fetch
\* is rejected leaves every other fetch as it was.
C8_SettleAll ==
    [][ /\ (op = "idle" /\ op' = "full" /\ response'.state = "awaiting")
            => /\ Len(fetches') = 3
               /\ \A i \in 1..3 : fetches'[i].result.state = "pending"
        /\ ( /\ op \in {"full", "batch"}
             /\ response.state = "awaiting"
             /\ response'.state \in {"returned", "rejected"} )
            => /\ AllFetchesSettled
               /\ fetches' = fetches
        /\ \A i \in DOMAIN fetches :
              ( /\ op \in {"full", "batch"}
                /\ fetches[i].result.state = "pending"
                /\ fetches'[i].result.state = "rejected" )
              => \A j \in DOMAIN fetches \ {i} : fetches'[j] = fetches[j]
      ]_vars

\* A full lookup that returned with a rejected and a fulfilled fetch.
C8_Witness ==
    /\ op = "full"
    /\ response.state = "returned"
    /\ Len(fetches) = 3
    /\ \E i \in 1..3 : fetches[i].result.state = "rejected"
    /\ \E i \in 1..3 : fetches[i].result.state = "fulfilled"

\* C9: no fetch is ever issued for an invalid address: lookup, full, threat
\* and distance with an invalid address have returned the format error with
\* no fetch; in batch each address has as many fetches as it has valid
\* occurrences in the input, an invalid one none.
C9_NoFetchForInvalidIP ==
    /\ \A i \in DOMAIN fetches : isValidIP(fetches[i].ip)
    /\ ( /\ op \in {"lookup", "full", "threat", "distance"}
         /\ InvalidPositions # {} )
       => /\ fetches = <<>>
          /\ response.state = "returned"
          /\ response.output.error = Str(InvalidIPFormat)
    /\ op = "batch" =>
          \A k \in DOMAIN input :
             Cardinality({i \in DOMAIN fetches : fetches[i].ip = input[k]})
             = Cardinality({j \in ValidPositions : input[j] = input[k]})

\* A batch with a valid and an invalid address, and distance with only its
\* second address invalid, are both reached; the witness is the batch.
C9_Witness ==
    /\ op = "batch"
    /\ ValidPositions # {} /\ InvalidPositions # {}
    /\ Len(fetches) = Cardinality(ValidPositions)
    /\ response.state = "returned"

\* C10: the invalidIPs of a returned batch is undefined exactly when the
\* input has no invalid address, and otherwise the list of the invalid
\* addresses in input order; it is never an empty list.
C10_InvalidIPsField ==
    (op = "batch" /\ response.state = "returned") =>
      LET field == response.output.invalidIPs
      IN  /\ (field = Undef) = (InvalidPositions = {})
          /\ field # Undef =>
                /\ field.t = "array"
                /\ Len(field.s) = Cardinality(InvalidPositions)
                /\ \A i \in DOMAIN field.s : field.s[i] = input[NthInvalid(i)]
          /\ field # Arr(<<>>)

\* A returned batch without an invalid address, and so without the field.
C10_Witness ==
    /\ op = "batch"
    /\ response.state = "returned"
    /\ InvalidPositions = {}
    /\ response.output.invalidIPs = Undef

====
